---- MODULE Spec2Model ----
(***************************************************************************)
(* Four-way intersection simulation (src/src/main.rs): TrafficLight, Lane  *)
(* and TrafficSimulation as a state machine.                               *)
(*                                                                         *)
(* Numbers.  Every coordinate the program produces is an integer (spawn    *)
(* and snap coordinates are 30, 385, 400, 415, 485, 500, 515, 770, 970 and *)
(* a step is 2), so the f32 fields x and y are held as integers, exactly.  *)
(* Time is held in milliseconds.  An Instant is only ever read through     *)
(* elapsed(), so `timer` and `last_spawn` hold that elapsed time; the main *)
(* loop sleeps FRAME_MS between two updates and that is the only way time  *)
(* passes.  The colour of a vehicle is a function of its route and is read *)
(* by the renderer only; it is not held.                                   *)
(***************************************************************************)
EXTENDS Integers, Sequences, FiniteSets, TLC

\* ------------------------------------------------------------ constants
WINDOW_WIDTH == 1000
WINDOW_HEIGHT == 800
ROAD_WIDTH == 60
LANE_WIDTH == 30
VEHICLE_SIZE == 30
SAFETY_GAP == 15
VEHICLE_SPEED == 2
SPAWN_COOLDOWN == 500
RED_DURATION == 6000
GREEN_LONG == 12000
GREEN_SHORT == 8000
OFF_SCREEN_MARGIN == 50
ENTRANCE_DEPTH == 30
SPAWN_INSET == 30
FRAME_MS == 30

Direction == {"North", "South", "East", "West"}
Route == {"Straight", "Left", "Right"}
LightState == {"Red", "Green"}

center_x == WINDOW_WIDTH \div 2
center_y == WINDOW_HEIGHT \div 2
lane_offset == LANE_WIDTH \div 2
intersection_size == ROAD_WIDTH \div 2

Max(a, b) == IF a >= b THEN a ELSE b
Min(a, b) == IF a <= b THEN a ELSE b

\* ------------------------------------------------------------ bounds
\* Vehicles spawned in one run, and how many of them may draw a turning route.
MaxSpawns == 9
MaxTurns == 1
\* The input of one run.  Either the user holds one arrow key down once, and
\* its key-down events reach the event loop in the frames of KeyFrames from
\* the press, in a frame of PressFrames, until the release: 10 is inside the
\* cooldown a new lane starts with, 17 frames is the shortest time the
\* cooldown admits between two spawns, and the later frames meet the later
\* phases of the light.  Or the user presses R, any number of times, in the
\* frames of RandomFrames.  EarlyFrames are the key frames after that first
\* cooldown and in the first half of the first Red phase.
KeyFrames == {0, 10, 17, 34, 51, 68, 85, 180, 230, 247, 264, 281, 300, 317}
PressFrames == {0, 17, 180}
EarlyFrames == {f \in KeyFrames : SPAWN_COOLDOWN <= f * FRAME_MS /\ 2 * f * FRAME_MS < RED_DURATION}
RandomFrames == {17}
LastKeyFrame == CHOOSE f \in KeyFrames : \A g \in KeyFrames : g <= f

\* ------------------------------------------------------------ state
VARIABLES
    lanes,      \* TrafficSimulation.lanes: Direction -> Lane
    frame,      \* iterations of the main loop so far (stops counting after LastKeyFrame)
    spawned,    \* per lane, vehicles created so far; the next vehicle's id
    turns,      \* vehicles created so far with a turning route
    key,        \* "" before the first key press; the direction of the arrow key
                \* while it is held and "released" afterwards; "R" once R was pressed
    last_call,  \* per lane: time since the last spawn_vehicle call, and what it added
    op          \* the operation that produced this state

vars == <<lanes, frame, spawned, turns, key, last_call, op>>

\* ------------------------------------------------------------ TrafficLight
TrafficLightNew ==
    [state |-> "Red", timer |-> 0, red_duration |-> RED_DURATION,
     green_congested |-> FALSE, green_length |-> 0]

\* congestion_factor > 0.7, the quotient of two small integers compared in f32:
\* queue_length / capacity > 7/10.
Congested(queue_length, capacity) ==
    IF capacity > 0 THEN 10 * queue_length > 7 * capacity ELSE FALSE

adjusted_green(queue_length, capacity) ==
    IF Congested(queue_length, capacity) THEN GREEN_LONG ELSE GREEN_SHORT

\* TrafficLight::update choosing the Green duration from the congestion it saw
\* when the light turned Green.
TrafficLightUpdate_duration_fixed_at_green(tl, queue_length, capacity) ==
    IF tl.state = "Green"
    THEN IF tl.timer >= (IF tl.green_congested THEN GREEN_LONG ELSE GREEN_SHORT)
         THEN [tl EXCEPT !.state = "Red", !.timer = 0, !.green_length = tl.timer]
         ELSE tl
    ELSE IF tl.timer >= tl.red_duration
         THEN [tl EXCEPT !.state = "Green", !.timer = 0,
                         !.green_congested = Congested(queue_length, capacity)]
         ELSE tl

\* TrafficLight::update with a Green phase that never ends.
TrafficLightUpdate_stays_green(tl, queue_length, capacity) ==
    IF tl.state = "Green"
    THEN tl
    ELSE IF tl.timer >= tl.red_duration
         THEN [tl EXCEPT !.state = "Green", !.timer = 0,
                         !.green_congested = Congested(queue_length, capacity)]
         ELSE tl

\* TrafficLight::update with a Red phase that never ends.
TrafficLightUpdate_stays_red(tl, queue_length, capacity) ==
    IF tl.state = "Green"
    THEN IF tl.timer >= adjusted_green(queue_length, capacity)
         THEN [tl EXCEPT !.state = "Red", !.timer = 0, !.green_length = tl.timer]
         ELSE tl
    ELSE tl

\* TrafficLight::update ending the Green phase after the red duration.
TrafficLightUpdate_green_uses_red_duration(tl, queue_length, capacity) ==
    IF tl.state = "Green"
    THEN IF tl.timer >= tl.red_duration
         THEN [tl EXCEPT !.state = "Red", !.timer = 0, !.green_length = tl.timer]
         ELSE tl
    ELSE IF tl.timer >= tl.red_duration
         THEN [tl EXCEPT !.state = "Green", !.timer = 0,
                         !.green_congested = Congested(queue_length, capacity)]
         ELSE tl

\* TrafficLight::update.  Two history fields: green_congested, the congestion
\* the light saw in the update that turned it Green, and green_length, how
\* long the last finished Green phase had lasted when it ended.
TrafficLightUpdate(tl, queue_length, capacity) ==
    IF tl.state = "Green"
    THEN IF tl.timer >= adjusted_green(queue_length, capacity)
         THEN [tl EXCEPT !.state = "Red", !.timer = 0, !.green_length = tl.timer]
         ELSE tl
    ELSE IF tl.timer >= tl.red_duration
         THEN [tl EXCEPT !.state = "Green", !.timer = 0,
                         !.green_congested = Congested(queue_length, capacity)]
         ELSE tl

\* ------------------------------------------------------------ Lane
LaneLength(direction) ==
    IF direction \in {"North", "South"}
    THEN (WINDOW_HEIGHT - ROAD_WIDTH) \div 2
    ELSE (WINDOW_WIDTH - ROAD_WIDTH) \div 2

LaneNew(direction) ==
    [vehicles |-> <<>>,
     direction |-> direction,
     traffic_light |-> TrafficLightNew,
     capacity |-> Max(LaneLength(direction) \div (VEHICLE_SIZE + SAFETY_GAP), 1),
     last_spawn |-> 0]

\* can_spawn without the capacity test.
can_spawn_ignoring_capacity(lane) ==
    lane.last_spawn >= SPAWN_COOLDOWN

\* can_spawn without the cooldown test.
can_spawn_ignoring_cooldown(lane) ==
    Len(lane.vehicles) < lane.capacity

can_spawn(lane) ==
    lane.last_spawn >= SPAWN_COOLDOWN /\ Len(lane.vehicles) < lane.capacity

get_spawn_position(direction) ==
    CASE direction = "North" -> [x |-> center_x + lane_offset, y |-> WINDOW_HEIGHT - SPAWN_INSET]
      [] direction = "South" -> [x |-> center_x - lane_offset, y |-> SPAWN_INSET]
      [] direction = "East"  -> [x |-> SPAWN_INSET, y |-> center_y + lane_offset]
      [] direction = "West"  -> [x |-> WINDOW_WIDTH - SPAWN_INSET, y |-> center_y - lane_offset]

\* Lane::spawn_vehicle with push_front in the place of push_back.
spawn_vehicle_at_front(lane, route, id) ==
    IF ~can_spawn(lane)
    THEN lane
    ELSE [lane EXCEPT
            !.vehicles = <<[x |-> get_spawn_position(lane.direction).x,
                            y |-> get_spawn_position(lane.direction).y,
                            direction |-> lane.direction,
                            route |-> route,
                            has_turned |-> FALSE,
                            id |-> id]>> \o @,
            !.last_spawn = 0]

\* Lane::spawn_vehicle whose refusal restarts the cooldown.
spawn_vehicle_refusal_restarts_cooldown(lane, route, id) ==
    IF ~can_spawn(lane)
    THEN [lane EXCEPT !.last_spawn = 0]
    ELSE [lane EXCEPT
            !.vehicles = Append(@, [x |-> get_spawn_position(lane.direction).x,
                                    y |-> get_spawn_position(lane.direction).y,
                                    direction |-> lane.direction,
                                    route |-> route,
                                    has_turned |-> FALSE,
                                    id |-> id]),
            !.last_spawn = 0]

\* Lane::spawn_vehicle with the route the generator drew; id is the history
\* field that tells vehicles apart.
spawn_vehicle(lane, route, id) ==
    IF ~can_spawn(lane)
    THEN lane
    ELSE [lane EXCEPT
            !.vehicles = Append(@, [x |-> get_spawn_position(lane.direction).x,
                                    y |-> get_spawn_position(lane.direction).y,
                                    direction |-> lane.direction,
                                    route |-> route,
                                    has_turned |-> FALSE,
                                    id |-> id]),
            !.last_spawn = 0]

\* calculate_distance, squared: sqrt is monotone and exact enough on these
\* integers that d < k iff d*d < k*k.
calculate_distance_sq(v1, v2) ==
    (v1.x - v2.x) * (v1.x - v2.x) + (v1.y - v2.y) * (v1.y - v2.y)

at_intersection_entrance(vehicle) ==
    CASE vehicle.direction = "North" ->
            vehicle.y <= center_y + intersection_size /\
            vehicle.y >= center_y + intersection_size - ENTRANCE_DEPTH
      [] vehicle.direction = "South" ->
            vehicle.y >= center_y - intersection_size /\
            vehicle.y <= center_y - intersection_size + ENTRANCE_DEPTH
      [] vehicle.direction = "East" ->
            vehicle.x <= center_x + intersection_size /\
            vehicle.x >= center_x + intersection_size - ENTRANCE_DEPTH
      [] vehicle.direction = "West" ->
            vehicle.x >= center_x - intersection_size /\
            vehicle.x <= center_x - intersection_size + ENTRANCE_DEPTH

adjust_position_after_turn(vehicle) ==
    CASE vehicle.direction = "North" ->
            [vehicle EXCEPT !.x = center_x + lane_offset, !.y = center_y]
      [] vehicle.direction = "South" ->
            [vehicle EXCEPT !.x = center_x - lane_offset, !.y = center_y]
      [] vehicle.direction = "East" ->
            [vehicle EXCEPT !.x = center_x, !.y = center_y + lane_offset]
      [] vehicle.direction = "West" ->
            [vehicle EXCEPT !.x = center_x, !.y = center_y - lane_offset]

should_turn(vehicle) ==
    CASE vehicle.direction = "North" -> vehicle.y <= center_y
      [] vehicle.direction = "South" -> vehicle.y >= center_y
      [] vehicle.direction = "East"  -> vehicle.x >= center_x
      [] vehicle.direction = "West"  -> vehicle.x <= center_x

\* The Left table with the clockwise entries.
TurnLeft_clockwise(direction) ==
    CASE direction = "North" -> "East"
      [] direction = "South" -> "West"
      [] direction = "East"  -> "South"
      [] direction = "West"  -> "North"

TurnLeft(direction) ==
    CASE direction = "North" -> "West"
      [] direction = "South" -> "East"
      [] direction = "East"  -> "North"
      [] direction = "West"  -> "South"

TurnRight(direction) ==
    CASE direction = "North" -> "East"
      [] direction = "South" -> "West"
      [] direction = "East"  -> "South"
      [] direction = "West"  -> "North"

\* The body of `if should_turn` without `vehicle.has_turned = true`.
Turn_without_mark(vehicle) ==
    CASE vehicle.route = "Left" ->
            adjust_position_after_turn([vehicle EXCEPT !.direction = TurnLeft(@)])
      [] vehicle.route = "Right" ->
            adjust_position_after_turn([vehicle EXCEPT !.direction = TurnRight(@)])
      [] OTHER -> vehicle

\* The body of `if should_turn`: the match on the route, then has_turned.
Turn(vehicle) ==
    LET matched ==
            CASE vehicle.route = "Left" ->
                    adjust_position_after_turn([vehicle EXCEPT !.direction = TurnLeft(@)])
              [] vehicle.route = "Right" ->
                    adjust_position_after_turn([vehicle EXCEPT !.direction = TurnRight(@)])
              [] OTHER -> vehicle
    IN  [matched EXCEPT !.has_turned = TRUE]

\* handle_route_change without the test of has_turned.
handle_route_change_ignoring_has_turned(vehicle) ==
    IF vehicle.route # "Straight"
    THEN IF should_turn(vehicle) THEN Turn(vehicle) ELSE vehicle
    ELSE vehicle

\* handle_route_change without the test of the route.
handle_route_change_ignoring_route(vehicle) ==
    IF ~vehicle.has_turned
    THEN IF should_turn(vehicle) THEN Turn(vehicle) ELSE vehicle
    ELSE vehicle

handle_route_change(vehicle) ==
    IF vehicle.route # "Straight" /\ ~vehicle.has_turned
    THEN IF should_turn(vehicle) THEN Turn(vehicle) ELSE vehicle
    ELSE vehicle

Step(vehicle) ==
    CASE vehicle.direction = "North" -> [vehicle EXCEPT !.y = @ - VEHICLE_SPEED]
      [] vehicle.direction = "South" -> [vehicle EXCEPT !.y = @ + VEHICLE_SPEED]
      [] vehicle.direction = "East"  -> [vehicle EXCEPT !.x = @ + VEHICLE_SPEED]
      [] vehicle.direction = "West"  -> [vehicle EXCEPT !.x = @ - VEHICLE_SPEED]

move_vehicle(vehicle) == handle_route_change(Step(vehicle))

\* vehicle_off_screen with twice the margin.
vehicle_off_screen_twice_the_margin(vehicle) ==
    \/ vehicle.x < -2 * OFF_SCREEN_MARGIN
    \/ vehicle.x > WINDOW_WIDTH + 2 * OFF_SCREEN_MARGIN
    \/ vehicle.y < -2 * OFF_SCREEN_MARGIN
    \/ vehicle.y > WINDOW_HEIGHT + 2 * OFF_SCREEN_MARGIN

vehicle_off_screen(vehicle) ==
    \/ vehicle.x < -OFF_SCREEN_MARGIN
    \/ vehicle.x > WINDOW_WIDTH + OFF_SCREEN_MARGIN
    \/ vehicle.y < -OFF_SCREEN_MARGIN
    \/ vehicle.y > WINDOW_HEIGHT + OFF_SCREEN_MARGIN

\* can_move without the test of the light.
CanMove_ignoring_light(vehicles, i, traffic_light_state) ==
    i > 1 => calculate_distance_sq(vehicles[i], vehicles[i - 1])
                >= (SAFETY_GAP + VEHICLE_SIZE) * (SAFETY_GAP + VEHICLE_SIZE)

\* The first pass of Lane::update: can_move of the vehicle at index i, from
\* the positions before any vehicle moves and the light after its update.
CanMove(vehicles, i, traffic_light_state) ==
    /\ i > 1 => calculate_distance_sq(vehicles[i], vehicles[i - 1])
                    >= (SAFETY_GAP + VEHICLE_SIZE) * (SAFETY_GAP + VEHICLE_SIZE)
    /\ ~(at_intersection_entrance(vehicles[i]) /\ traffic_light_state = "Red")

\* can_move decided and applied vehicle by vehicle: the distance is taken to
\* the vehicle ahead as the same pass has already moved it.
RECURSIVE MovementsFrom(_, _, _, _)
MovementsFrom(vehicles, traffic_light_state, i, front) ==
    IF i > Len(vehicles) THEN <<>>
    ELSE LET can_move ==
                 /\ i > 1 => calculate_distance_sq(vehicles[i], front)
                                 >= (SAFETY_GAP + VEHICLE_SIZE) * (SAFETY_GAP + VEHICLE_SIZE)
                 /\ ~(at_intersection_entrance(vehicles[i]) /\ traffic_light_state = "Red")
             vehicle == IF can_move THEN move_vehicle(vehicles[i]) ELSE vehicles[i]
         IN  <<can_move>> \o MovementsFrom(vehicles, traffic_light_state, i + 1, vehicle)

Movements_in_one_pass(vehicles, traffic_light_state) ==
    IF vehicles = <<>> THEN <<>>
    ELSE MovementsFrom(vehicles, traffic_light_state, 1, vehicles[1])

Movements(vehicles, traffic_light_state) ==
    [i \in 1..Len(vehicles) |-> CanMove(vehicles, i, traffic_light_state)]

\* The second pass: the vehicles after the moves, and the indices pushed to
\* to_remove, in the order they are pushed (ascending).
MovedVehicles(vehicles, movements) ==
    [i \in 1..Len(vehicles) |->
        IF movements[i] THEN move_vehicle(vehicles[i]) ELSE vehicles[i]]

RECURSIVE ToRemoveFrom(_, _, _)
ToRemoveFrom(moved, movements, i) ==
    IF i > Len(moved) THEN <<>>
    ELSE IF movements[i] /\ vehicle_off_screen(moved[i])
         THEN <<i>> \o ToRemoveFrom(moved, movements, i + 1)
         ELSE ToRemoveFrom(moved, movements, i + 1)

\* VecDeque::remove(i): nothing happens when i is out of range.
RemoveAt(s, i) ==
    IF i \in 1..Len(s)
    THEN [j \in 1..(Len(s) - 1) |-> IF j < i THEN s[j] ELSE s[j + 1]]
    ELSE s

Reverse(s) == [i \in 1..Len(s) |-> s[Len(s) + 1 - i]]

RECURSIVE RemoveEach(_, _)
RemoveEach(s, indices) ==
    IF indices = <<>> THEN s
    ELSE RemoveEach(RemoveAt(s, Head(indices)), Tail(indices))

\* The removal loop taking the vehicles from the back of the queue, one for
\* each index.
RemoveMarked_pop_back(vehicles, to_remove) ==
    SubSeq(vehicles, 1, Len(vehicles) - Len(to_remove))

\* The removal loop without .rev(): the indices are used in the order they
\* were pushed, so each removal shifts the vehicles the later indices name.
RemoveMarked_in_push_order(vehicles, to_remove) == RemoveEach(vehicles, to_remove)

\* for &i in to_remove.iter().rev() { self.vehicles.remove(i); }
RemoveMarked(vehicles, to_remove) == RemoveEach(vehicles, Reverse(to_remove))

LaneUpdate(lane) ==
    LET light == TrafficLightUpdate(lane.traffic_light, Len(lane.vehicles), lane.capacity)
        movements == Movements(lane.vehicles, light.state)
        moved == MovedVehicles(lane.vehicles, movements)
        to_remove == ToRemoveFrom(moved, movements, 1)
    IN  [lane EXCEPT !.traffic_light = light,
                     !.vehicles = RemoveMarked(moved, to_remove)]

\* TrafficSimulation.lanes is an array; the model names each of its lanes by
\* the direction TrafficSimulation::new built it with, in the array's order.
LaneOrder == <<"North", "South", "East", "West">>

\* The loop body yielding to cross traffic: while a vehicle of another lane
\* is in an entrance band, the lane updates its light only.
UpdateLane_yielding_to_cross_traffic(ls, d) ==
    IF \E e \in Direction \ {d} : \E i \in 1..Len(ls[e].vehicles) :
            at_intersection_entrance(ls[e].vehicles[i])
    THEN [ls EXCEPT ![d].traffic_light =
                TrafficLightUpdate(@, Len(ls[d].vehicles), ls[d].capacity)]
    ELSE [ls EXCEPT ![d] = LaneUpdate(@)]

\* The body of the loop of TrafficSimulation::update: lane.update() on one
\* lane of the array.
UpdateLane(ls, d) == [ls EXCEPT ![d] = LaneUpdate(@)]

RECURSIVE UpdateInOrder(_, _)
UpdateInOrder(ls, order) ==
    IF order = <<>> THEN ls
    ELSE UpdateInOrder(UpdateLane(ls, Head(order)), Tail(order))

\* TrafficSimulation::update: the lanes in the array's order.
SimulationUpdate(ls) == UpdateInOrder(ls, LaneOrder)

\* std::thread::sleep(FRAME_MS) as the lane's two Instants see it.  Past the
\* longest duration they are compared with, the elapsed times stop growing.
Sleep(lane) ==
    [lane EXCEPT !.traffic_light.timer = Min(@ + FRAME_MS, GREEN_LONG + FRAME_MS),
                 !.last_spawn = Min(@ + FRAME_MS, SPAWN_COOLDOWN + FRAME_MS)]

\* ------------------------------------------------------------ operations
NoCall == [age |-> SPAWN_COOLDOWN + FRAME_MS, added |-> 0]
NoneRemoved == [d \in Direction |-> 0]

Init ==
    /\ lanes = [d \in Direction |-> LaneNew(d)]
    /\ frame = 0
    /\ spawned = [d \in Direction |-> 0]
    /\ turns = 0
    /\ key = ""
    /\ last_call = [d \in Direction |-> NoCall]
    /\ op = [name |-> "new", direction |-> "", removed |-> NoneRemoved]

TotalSpawned ==
    spawned["North"] + spawned["South"] + spawned["East"] + spawned["West"]

\* The match of TrafficSimulation::spawn_vehicle, and the lane at an index.
lane_index(direction) ==
    CASE direction = "North" -> 0
      [] direction = "South" -> 1
      [] direction = "East"  -> 2
      [] direction = "West"  -> 3

LaneAt(index) == LaneOrder[index + 1]

\* TrafficSimulation::spawn_vehicle(direction), called for one key-down event.
SpawnCall(direction, route, name) ==
    /\ TotalSpawned < MaxSpawns
    /\ route # "Straight" => turns < MaxTurns
    /\ LET target == LaneAt(lane_index(direction))
           lane == spawn_vehicle(lanes[target], route, spawned[target])
           added == Len(lane.vehicles) - Len(lanes[target].vehicles)
       IN  /\ lanes' = [lanes EXCEPT ![target] = lane]
           /\ spawned' = [spawned EXCEPT ![target] = @ + added]
           /\ turns' = IF added = 1 /\ route # "Straight" THEN turns + 1 ELSE turns
           /\ last_call' = [last_call EXCEPT ![target] = [age |-> 0, added |-> added]]
    /\ op' = [name |-> name, direction |-> direction, removed |-> NoneRemoved]
    /\ UNCHANGED frame

\* An arrow key.
HeldSpawn(frames) ==
    /\ frame \in frames
    /\ key = "" => frame \in PressFrames
    /\ \E direction \in Direction, route \in Route :
          /\ key \in {"", direction}
          /\ key' = direction
          /\ SpawnCall(direction, route, "spawn_vehicle")

Spawn == HeldSpawn(KeyFrames)

\* The same with the key released in the first half of the first Red phase.
EarlySpawn == HeldSpawn(EarlyFrames)

\* The R key: spawn_random_vehicle draws the direction.
SpawnRandom ==
    /\ frame \in RandomFrames
    /\ key \in {"", "R"}
    /\ key' = "R"
    /\ \E direction \in Direction, route \in Route :
          SpawnCall(direction, route, "spawn_random_vehicle")

\* Time since the last call, as the sleep changes it; a call older than the
\* cooldown is forgotten.
Aged(call) ==
    IF call.age + FRAME_MS >= SPAWN_COOLDOWN THEN NoCall
    ELSE [call EXCEPT !.age = @ + FRAME_MS]

\* One iteration of the main loop after its events: TrafficSimulation::update,
\* then the sleep.  A key frame that passes without an event while the arrow
\* key was held is the release.
Tick ==
    /\ \E updated \in {SimulationUpdate(lanes)} :
          lanes' = [d \in Direction |-> Sleep(updated[d])]
    /\ frame' = Min(frame + 1, LastKeyFrame + 1)
    /\ last_call' = [d \in Direction |-> Aged(last_call[d])]
    /\ key' = IF key \in Direction /\ frame \in KeyFrames /\ op.name = "update"
              THEN "released" ELSE key
    /\ op' = [name |-> "update", direction |-> "",
              removed |-> [d \in Direction |->
                             Len(lanes[d].vehicles) - Len(lanes'[d].vehicles)]]
    /\ UNCHANGED <<spawned, turns>>

Next == Spawn \/ SpawnRandom \/ Tick

Spec == Init /\ [][Next]_vars

\* The main loop never stops iterating; the runs whose arrow key is released
\* in the first half of the first Red phase, and those of the R key.
LiveNext == EarlySpawn \/ SpawnRandom \/ Tick

LiveSpec == Init /\ [][LiveNext]_vars /\ WF_vars(Tick)

\* The runs of the R key: the only ones with vehicles in several lanes.
RandomNext == SpawnRandom \/ Tick

RandomSpec == Init /\ [][RandomNext]_vars

\* ------------------------------------------------------------ properties
Vehicles(d) == lanes[d].vehicles
IdsOf(vehicles) == {vehicles[i].id : i \in 1..Len(vehicles)}
IsCall == op.name \in {"spawn_vehicle", "spawn_random_vehicle"}

\* C1: in every reachable state, whatever spawn_vehicle, spawn_random_vehicle
\* and update calls led to it, no lane holds more vehicles than its capacity.
C1_QueueWithinCapacity ==
    \A d \in Direction : Len(Vehicles(d)) <= lanes[d].capacity

\* A full lane has just refused a spawn.
C1_Witness ==
    \E d \in Direction :
        /\ Len(Vehicles(d)) = lanes[d].capacity
        /\ IsCall /\ op.direction = d
        /\ last_call[d] = [age |-> 0, added |-> 0]
        /\ lanes[d].last_spawn >= SPAWN_COOLDOWN

\* C2 (as claimed): in every reachable state, no two vehicles of one lane's
\* queue are closer to each other than SAFETY_GAP.
C2_NoTwoCloserThanSafetyGap ==
    \A d \in Direction : \A i, j \in 1..Len(Vehicles(d)) :
        i < j => calculate_distance_sq(Vehicles(d)[i], Vehicles(d)[j])
                    >= SAFETY_GAP * SAFETY_GAP

SecondCallInWindow(d) ==
    /\ op'.name \in {"spawn_vehicle", "spawn_random_vehicle"}
    /\ op'.direction = d
    /\ last_call[d].age < SPAWN_COOLDOWN

AddedByStep(d) == Len(lanes'[d].vehicles) - Len(lanes[d].vehicles)

\* C4 (as claimed): two calls of spawn_vehicle on one lane less than
\* SPAWN_COOLDOWN apart add exactly one vehicle to its queue.
C4_TwoCallsAddExactlyOne ==
    [][\A d \in Direction :
          SecondCallInWindow(d) => last_call[d].added + AddedByStep(d) = 1]_vars

\* C4 (amended): two calls of spawn_vehicle on one lane less than
\* SPAWN_COOLDOWN apart add at most one vehicle to its queue: when the first
\* adds one, the second is refused.
C4_TwoCallsAddAtMostOne ==
    [][\A d \in Direction :
          SecondCallInWindow(d) => last_call[d].added + AddedByStep(d) <= 1]_vars

\* A call has just been refused in the frame in which an earlier call spawned.
C4_Witness ==
    \E d \in Direction :
        /\ IsCall /\ op.direction = d
        /\ last_call[d] = [age |-> 0, added |-> 0]
        /\ lanes[d].last_spawn = 0
        /\ Len(Vehicles(d)) >= 1

\* The vehicle of the next state's queue of lane d that has this id.
Later(d, id) ==
    lanes'[d].vehicles[CHOOSE j \in 1..Len(lanes'[d].vehicles) :
                          lanes'[d].vehicles[j].id = id]

\* The intersection centre line on the travel axis of a vehicle heading
\* `direction`, reached or passed at (x, y).
ReachedCentreLine(direction, x, y) ==
    CASE direction = "North" -> 2 * y <= WINDOW_HEIGHT
      [] direction = "South" -> 2 * y >= WINDOW_HEIGHT
      [] direction = "East"  -> 2 * x >= WINDOW_WIDTH
      [] direction = "West"  -> 2 * x <= WINDOW_WIDTH

\* C5: a vehicle changes direction only if its route is Left or Right and it
\* has not turned yet, only in a step that takes it onto or past the centre
\* line of its travel axis, and has_turned becomes true in that step and in
\* no other; once has_turned is true, has_turned and direction stay as they
\* are; and a Left or Right vehicle has turned when it is removed.
C5_TurnsExactlyOnce ==
    [][\A d \in Direction : \A i \in 1..Len(Vehicles(d)) :
          LET v == Vehicles(d)[i]
          IN  IF v.id \in IdsOf(lanes'[d].vehicles)
              THEN LET w == Later(d, v.id)
                   IN  /\ w.direction # v.direction =>
                              /\ v.route \in {"Left", "Right"}
                              /\ ~v.has_turned /\ w.has_turned
                              /\ ReachedCentreLine(v.direction, Step(v).x, Step(v).y)
                       /\ w.has_turned # v.has_turned => w.direction # v.direction
                       /\ v.has_turned => (w.has_turned /\ w.direction = v.direction)
              ELSE v.route \in {"Left", "Right"} => v.has_turned]_vars

\* A vehicle that has turned has since moved on from the point the turn put it at.
C5_Witness ==
    \E d \in Direction : \E i \in 1..Len(Vehicles(d)) :
        LET v == Vehicles(d)[i]
        IN  /\ v.route \in {"Left", "Right"}
            /\ v.has_turned
            /\ v.direction # d
            /\ v # adjust_position_after_turn(v)

\* C6: a Straight vehicle heads in the direction of the lane that spawned it,
\* with has_turned false, in every state in which it is queued.
C6_StraightNeverTurns ==
    \A d \in Direction : \A i \in 1..Len(Vehicles(d)) :
        Vehicles(d)[i].route = "Straight" =>
            (Vehicles(d)[i].direction = d /\ ~Vehicles(d)[i].has_turned)

\* A Straight vehicle is on or past the centre line, where the others turn.
C6_Witness ==
    \E d \in Direction : \E i \in 1..Len(Vehicles(d)) :
        /\ Vehicles(d)[i].route = "Straight"
        /\ ReachedCentreLine(d, Vehicles(d)[i].x, Vehicles(d)[i].y)

\* The rotation table of the claim.
RotationTable(route, from) ==
    CASE route = "Left"  /\ from = "North" -> "West"
      [] route = "Left"  /\ from = "West"  -> "South"
      [] route = "Left"  /\ from = "South" -> "East"
      [] route = "Left"  /\ from = "East"  -> "North"
      [] route = "Right" /\ from = "North" -> "East"
      [] route = "Right" /\ from = "East"  -> "South"
      [] route = "Right" /\ from = "South" -> "West"
      [] route = "Right" /\ from = "West"  -> "North"

\* C7: a vehicle that has turned heads where the rotation table sends its
\* route from the direction of its lane, for all eight pairs.
C7_TurnFollowsRotationTable ==
    \A d \in Direction : \A i \in 1..Len(Vehicles(d)) :
        Vehicles(d)[i].has_turned =>
            /\ Vehicles(d)[i].route \in {"Left", "Right"}
            /\ Vehicles(d)[i].direction = RotationTable(Vehicles(d)[i].route, d)

\* A Left turn has fired.
C7_Witness ==
    \E d \in Direction : \E i \in 1..Len(Vehicles(d)) :
        Vehicles(d)[i].has_turned /\ Vehicles(d)[i].route = "Left"

\* The position is beyond the playfield by more than the margin.
Beyond(v) ==
    \/ v.x < -OFF_SCREEN_MARGIN
    \/ v.x > WINDOW_WIDTH + OFF_SCREEN_MARGIN
    \/ v.y < -OFF_SCREEN_MARGIN
    \/ v.y > WINDOW_HEIGHT + OFF_SCREEN_MARGIN

IdSeq(vehicles) == [i \in 1..Len(vehicles) |-> vehicles[i].id]

\* C8: a vehicle beyond the playfield by the margin is not in its lane's queue
\* after the next Lane::update, and the update leaves the remaining vehicles
\* in their order, also when it removes several.  In every update, of every
\* lane: no vehicle of the queue afterwards is beyond the margin, whether it
\* was so before or went there in this update; the queue afterwards is the
\* queue before without the removed vehicles, in the same order; and the
\* removed vehicles are ones this update took beyond the margin.
C8_OffScreenRemovedInOrder ==
    [][op'.name = "update" =>
        \A d \in Direction :
            LET pre == lanes[d].vehicles
                post == lanes'[d].vehicles
            IN  /\ \A i \in 1..Len(post) : ~Beyond(post[i])
                /\ \A i \in 1..Len(pre) :
                        Beyond(pre[i]) => pre[i].id \notin IdsOf(post)
                /\ IdSeq(post) = SelectSeq(IdSeq(pre), LAMBDA id : id \in IdsOf(post))
                /\ \A i \in 1..Len(pre) :
                        pre[i].id \notin IdsOf(post) => Beyond(move_vehicle(pre[i]))]_vars

\* An update has removed two vehicles of a lane at once and left others.
C8_Witness ==
    /\ op.name = "update"
    /\ \E d \in Direction : op.removed[d] >= 2 /\ Len(Vehicles(d)) >= 1

Light(d) == lanes[d].traffic_light

\* The light of lane d changes state in this step.
Switches(d, from, to) ==
    Light(d).state = from /\ lanes'[d].traffic_light.state = to

C10_EveryVehicleLeaves == <>[](\A d \in Direction : Vehicles(d) = <<>>)

\* One Straight vehicle was spawned in each direction in the same frame and
\* all four lanes are empty again.
C10_Witness ==
    /\ key = "R"
    /\ \A d \in Direction : spawned[d] = 1
    /\ turns = 0
    /\ \A d \in Direction : Vehicles(d) = <<>>

\* This step is a call of spawn_vehicle on lane d.
CallOn(d) ==
    op'.name \in {"spawn_vehicle", "spawn_random_vehicle"} /\ op'.direction = d

\* C11: a refused spawn is a silent no-op.  A call of spawn_vehicle on a lane
\* whose cooldown has not elapsed, or whose queue has as many vehicles as its
\* capacity, leaves that lane's queue with every vehicle in it, its last-spawn
\* time and its traffic light as they were.
C11_RefusedSpawnChangesNothing ==
    [][\A d \in Direction :
          (/\ CallOn(d)
           /\ \/ lanes[d].last_spawn < SPAWN_COOLDOWN
              \/ Len(Vehicles(d)) >= lanes[d].capacity)
          => /\ lanes'[d].vehicles = lanes[d].vehicles
             /\ lanes'[d].last_spawn = lanes[d].last_spawn
             /\ lanes'[d].traffic_light = lanes[d].traffic_light
             /\ lanes' = lanes]_vars

\* A full lane whose cooldown has elapsed and whose light is Green has just
\* refused a spawn.
C11_Witness ==
    \E d \in Direction :
        /\ IsCall /\ op.direction = d
        /\ last_call[d] = [age |-> 0, added |-> 0]
        /\ Len(Vehicles(d)) = lanes[d].capacity
        /\ lanes[d].last_spawn >= SPAWN_COOLDOWN
        /\ Light(d).state = "Green"

\* The vehicle at index i of lane d's queue is removed by this step.
Removed(d, i) == lanes[d].vehicles[i].id \notin IdsOf(lanes'[d].vehicles)

\* C12 (as claimed): FIFO departure.  The queue is in spawn order, and no
\* update removes a vehicle while a vehicle before it in the queue, spawned
\* earlier in the same lane, stays queued.
C12_FifoDeparture ==
    [][op'.name = "update" =>
        \A d \in Direction : \A i \in 1..Len(Vehicles(d)) :
            /\ \A j \in 1..(i - 1) : Vehicles(d)[j].id < Vehicles(d)[i].id
            /\ Removed(d, i) => \A j \in 1..(i - 1) : Removed(d, j)]_vars

\* C12 (amended): the queue is in spawn order, and no update removes a
\* vehicle while a vehicle spawned earlier in the same lane with the same
\* route stays queued.  A vehicle can be removed while earlier vehicles with
\* another route are still queued.
C12_FifoDepartureWithinRoute ==
    [][op'.name = "update" =>
        \A d \in Direction : \A i \in 1..Len(Vehicles(d)) :
            /\ \A j \in 1..(i - 1) : Vehicles(d)[j].id < Vehicles(d)[i].id
            /\ Removed(d, i) =>
                  \A j \in 1..(i - 1) :
                      Vehicles(d)[j].route = Vehicles(d)[i].route => Removed(d, j)]_vars

\* An update has removed a vehicle while vehicles spawned before it and
\* vehicles spawned after it stay queued, among them two with a route in
\* common; another vehicle of the lane had left before.
C12_Witness ==
    /\ op.name = "update"
    /\ \E d \in Direction :
          /\ op.removed[d] >= 1
          /\ \E i, j \in 1..Len(Vehicles(d)) :
                /\ i < j
                /\ Vehicles(d)[i].route = Vehicles(d)[j].route
                /\ Vehicles(d)[i].id + 1 < Vehicles(d)[j].id
                /\ \E id \in 0..(spawned[d] - 1) :
                      /\ id \notin IdsOf(Vehicles(d))
                      /\ Vehicles(d)[i].id < id
                      /\ id < Vehicles(d)[j].id

\* The light of lane d as this step's update of it leaves it.
LightInTick(d) == lanes'[d].traffic_light.state

\* C13: Red hold.  In a tick in which a lane's light is Red after the light's
\* own update, every vehicle of the lane inside the entrance band of its
\* current direction stays queued with its position, direction and has_turned
\* unchanged, whatever its distance to the vehicle ahead.
C13_RedHoldsVehiclesInBand ==
    [][op'.name = "update" =>
        \A d \in Direction :
            LightInTick(d) = "Red" =>
                \A i \in 1..Len(Vehicles(d)) :
                    at_intersection_entrance(Vehicles(d)[i]) =>
                        /\ ~Removed(d, i)
                        /\ Later(d, Vehicles(d)[i].id) = Vehicles(d)[i]]_vars

\* Under a Red light that the last update has seen, a vehicle that has
\* turned waits in the entrance band of its new direction, and the vehicle
\* ahead of it in the queue is far away.
C13_Witness ==
    /\ op.name = "update"
    /\ \E d \in Direction :
          /\ Light(d).state = "Red"
          /\ Light(d).timer > FRAME_MS
          /\ \E i \in 2..Len(Vehicles(d)) :
                /\ Vehicles(d)[i].has_turned
                /\ at_intersection_entrance(Vehicles(d)[i])
                /\ calculate_distance_sq(Vehicles(d)[i], Vehicles(d)[i - 1])
                      >= 4 * (SAFETY_GAP + VEHICLE_SIZE) * (SAFETY_GAP + VEHICLE_SIZE)

\* The vehicle at index i of lane d's queue is moved by this step: the next
\* state holds what move_vehicle makes of it, or it was taken off screen.
Moves(d, i) ==
    IF Removed(d, i)
    THEN Beyond(move_vehicle(Vehicles(d)[i]))
    ELSE Later(d, Vehicles(d)[i].id) = move_vehicle(Vehicles(d)[i])

\* The vehicle at index i of lane d's queue is as it was after this step.
Stays(d, i) ==
    ~Removed(d, i) /\ Later(d, Vehicles(d)[i].id) = Vehicles(d)[i]

RedHeld(d, i) ==
    at_intersection_entrance(Vehicles(d)[i]) /\ LightInTick(d) = "Red"

\* C14: snapshot eligibility.  In every tick a vehicle that is not the lead
\* moves iff its distance, before the tick, to the vehicle just ahead of it in
\* the queue, as that one was before the tick, is at least SAFETY_GAP +
\* VEHICLE_SIZE and it is not red-held; the lead moves iff it is not red-held.
\* A vehicle that does not move stays as it was.
C14_EligibilityFromSnapshot ==
    [][op'.name = "update" =>
        \A d \in Direction : \A i \in 1..Len(Vehicles(d)) :
            LET eligible ==
                    /\ i > 1 =>
                          (Vehicles(d)[i].x - Vehicles(d)[i - 1].x)
                              * (Vehicles(d)[i].x - Vehicles(d)[i - 1].x)
                          + (Vehicles(d)[i].y - Vehicles(d)[i - 1].y)
                              * (Vehicles(d)[i].y - Vehicles(d)[i - 1].y)
                          >= (SAFETY_GAP + VEHICLE_SIZE) * (SAFETY_GAP + VEHICLE_SIZE)
                    /\ ~RedHeld(d, i)
            IN  IF eligible THEN Moves(d, i) ELSE Stays(d, i)]_vars

\* After an update a vehicle still stands where it was spawned although the
\* vehicle ahead of it has, in that update, got far enough away.
C14_Witness ==
    /\ op.name = "update"
    /\ \E d \in Direction : \E i \in 2..Len(Vehicles(d)) :
          /\ Vehicles(d)[i].x = get_spawn_position(d).x
          /\ Vehicles(d)[i].y = get_spawn_position(d).y
          /\ lanes[d].last_spawn > FRAME_MS
          /\ calculate_distance_sq(Vehicles(d)[i], Vehicles(d)[i - 1])
                >= (SAFETY_GAP + VEHICLE_SIZE) * (SAFETY_GAP + VEHICLE_SIZE)
          /\ calculate_distance_sq(Vehicles(d)[i], Vehicles(d)[i - 1])
                < (SAFETY_GAP + VEHICLE_SIZE + VEHICLE_SPEED)
                    * (SAFETY_GAP + VEHICLE_SIZE + VEHICLE_SPEED)

\* C15: light liveness.  With ticks that keep occurring, a Red light turns
\* Green in the first tick that finds the red duration elapsed, so no light is
\* Red for longer than the red duration and the frame that ends it; a Green
\* light eventually turns Red; every lane's light is Red again and again and
\* Green again and again, for ever.
C15_LightsAlternateForever ==
    /\ [][op'.name = "update" =>
            \A d \in Direction :
                (Light(d).state = "Red" /\ Light(d).timer >= RED_DURATION)
                    => lanes'[d].traffic_light.state = "Green"]_vars
    /\ [](\A d \in Direction :
            Light(d).state = "Red" => Light(d).timer < RED_DURATION + FRAME_MS)
    /\ \A d \in Direction :
            /\ []<>(Light(d).state = "Red")
            /\ []<>(Light(d).state = "Green")

\* Every light is Green for the second time, after runs that had vehicles.
C15_Witness ==
    /\ TotalSpawned >= 2
    /\ \A d \in Direction :
          Light(d).state = "Green" /\ Light(d).green_length > 0

\* The orders in which the four lanes can be updated.
Orders ==
    {order \in [1..Len(LaneOrder) -> Direction] :
        \A i, j \in 1..Len(LaneOrder) : i # j => order[i] # order[j]}

\* C16: lanes do not interact.  A call of spawn_vehicle(d) leaves the lanes
\* other than the one of direction d as they were; the update of one lane
\* leaves the other lanes as they were; and in every reachable state the
\* update of the simulation gives the same lanes in whatever order the four
\* lanes are updated.
C16_LanesDoNotInteract ==
    /\ [][\A d \in Direction :
              CallOn(d) => \A e \in Direction \ {d} : lanes'[e] = lanes[e]]_vars
    /\ [](\A d \in Direction :
              \E updated \in {UpdateLane(lanes, d)} :
                  \A e \in Direction \ {d} : updated[e] = lanes[e])
    /\ [](\E updated \in {SimulationUpdate(lanes)} :
              \A order \in Orders : UpdateInOrder(lanes, order) = updated)

\* All four lanes have vehicles after an update, one of them in an entrance
\* band under a Green light.
C16_Witness ==
    /\ op.name = "update"
    /\ \A d \in Direction : Vehicles(d) # <<>>
    /\ \E d \in Direction : \E i \in 1..Len(Vehicles(d)) :
          at_intersection_entrance(Vehicles(d)[i]) /\ Light(d).state = "Green"

\* C17: a successful spawn.  A call of spawn_vehicle on a lane whose cooldown
\* has elapsed and whose queue is below capacity makes the queue one longer:
\* the vehicles before the call are all there, unchanged and in their order,
\* and behind them is the new one, at the lane's spawn coordinate, heading in
\* the lane's direction, not turned.  The spawn timer is reset, so that
\* can_spawn() is false right after.
C17_SuccessfulSpawnAppendsOne ==
    [][\A d \in Direction :
          (/\ CallOn(d)
           /\ lanes[d].last_spawn >= SPAWN_COOLDOWN
           /\ Len(Vehicles(d)) < lanes[d].capacity)
          => LET post == lanes'[d].vehicles
                 new == post[Len(post)]
             IN  /\ Len(post) = Len(Vehicles(d)) + 1
                 /\ SubSeq(post, 1, Len(Vehicles(d))) = Vehicles(d)
                 /\ new.x = get_spawn_position(d).x
                 /\ new.y = get_spawn_position(d).y
                 /\ new.direction = lanes[d].direction
                 /\ lanes[d].direction = d
                 /\ new.has_turned = FALSE
                 /\ lanes'[d].last_spawn = 0
                 /\ ~(lanes'[d].last_spawn >= SPAWN_COOLDOWN
                        /\ Len(post) < lanes'[d].capacity)]_vars

\* A call has just added a vehicle behind two others, the first of which has
\* turned.
C17_Witness ==
    \E d \in Direction :
        /\ IsCall /\ op.direction = d
        /\ last_call[d] = [age |-> 0, added |-> 1]
        /\ lanes[d].last_spawn = 0
        /\ Len(Vehicles(d)) >= 3
        /\ Vehicles(d)[1].has_turned

\* The vehicle has not reached the centre line on the axis it travels on.
BeforeCentre(v) == ~ReachedCentreLine(v.direction, v.x, v.y)

\* C18: a Red light holds the vehicles on the approach side, in every
\* direction.  In a tick in which a lane's light is Red, a vehicle of the lane
\* that has not reached the centre line stays queued and before it, and no
\* vehicle goes from not turned to turned.
C18_RedHoldsBeforeCentreLine ==
    [][op'.name = "update" =>
        \A d \in Direction :
            LightInTick(d) = "Red" =>
                \A i \in 1..Len(Vehicles(d)) :
                    /\ BeforeCentre(Vehicles(d)[i]) =>
                          ~Removed(d, i) /\ BeforeCentre(Later(d, Vehicles(d)[i].id))
                    /\ (~Removed(d, i) /\ ~Vehicles(d)[i].has_turned) =>
                          ~Later(d, Vehicles(d)[i].id).has_turned]_vars

\* C19: in every reachable state, so after every Lane::update, every queued
\* vehicle lies within the playfield and its margin.  No vehicle stands
\* off screen waiting for a removal that only a move can bring.
C19_QueuedVehiclesWithinMargin ==
    \A d \in Direction : \A i \in 1..Len(Vehicles(d)) :
        /\ -OFF_SCREEN_MARGIN <= Vehicles(d)[i].x
        /\ Vehicles(d)[i].x <= WINDOW_WIDTH + OFF_SCREEN_MARGIN
        /\ -OFF_SCREEN_MARGIN <= Vehicles(d)[i].y
        /\ Vehicles(d)[i].y <= WINDOW_HEIGHT + OFF_SCREEN_MARGIN

\* After an update a turned vehicle is exactly on the margin, still queued.
C19_Witness ==
    /\ op.name = "update"
    /\ \E d \in Direction : \E i \in 1..Len(Vehicles(d)) :
          /\ Vehicles(d)[i].has_turned
          /\ \/ Vehicles(d)[i].x \in {-OFF_SCREEN_MARGIN, WINDOW_WIDTH + OFF_SCREEN_MARGIN}
             \/ Vehicles(d)[i].y \in {-OFF_SCREEN_MARGIN, WINDOW_HEIGHT + OFF_SCREEN_MARGIN}

\* C20: in every reachable state, a queued vehicle has turned iff it heads
\* in another direction than the lane that owns it, and only vehicles with
\* route Left or Right have turned; and the route of a vehicle is, in every
\* state in which it is queued, the one it was spawned with: no step changes
\* the route of a vehicle that stays queued.
C20_TurnedIffOffLaneDirection ==
    /\ [](\A d \in Direction : \A i \in 1..Len(Vehicles(d)) :
            /\ Vehicles(d)[i].has_turned <=> Vehicles(d)[i].direction # lanes[d].direction
            /\ lanes[d].direction = d
            /\ Vehicles(d)[i].has_turned => Vehicles(d)[i].route \in {"Left", "Right"})
    /\ [][\A d \in Direction : \A i \in 1..Len(Vehicles(d)) :
            ~Removed(d, i) =>
                Later(d, Vehicles(d)[i].id).route = Vehicles(d)[i].route]_vars

\* A lane owns a vehicle that has turned and is well away from the centre,
\* a Straight one past the centre line, and one not yet there.
C20_Witness ==
    \E d \in Direction : \E i, j, k \in 1..Len(Vehicles(d)) :
        /\ Vehicles(d)[i].has_turned
        /\ Vehicles(d)[i].direction # d
        /\ calculate_distance_sq(Vehicles(d)[i], adjust_position_after_turn(Vehicles(d)[i]))
              >= intersection_size * intersection_size
        /\ Vehicles(d)[j].route = "Straight"
        /\ ReachedCentreLine(d, Vehicles(d)[j].x, Vehicles(d)[j].y)
        /\ ~ReachedCentreLine(d, Vehicles(d)[k].x, Vehicles(d)[k].y)

====
